---- MODULE Spec2Model ----
(***************************************************************************)
(* Model of the tetanus key / signature codec (sicarius97/tetanus).        *)
(*                                                                         *)
(* The crate is a library of functions over byte buffers and strings.      *)
(* The state of the model is the last library call: its name, its          *)
(* arguments and what it returned (or that it panicked).  Values flow      *)
(* from one call to the next: the string a call returned can be handed to  *)
(* the call that parses it.                                                *)
(*                                                                         *)
(* Bytes are naturals in 0..255, buffers are sequences of bytes, strings   *)
(* are sequences of Unicode code points.  The hash functions and the       *)
(* curve come from external crates (sha2, ripemd, k256); they are          *)
(* modelled by small deterministic stand-ins with the same interface:      *)
(* an order-sensitive digest of the same output length, and ECDSA with     *)
(* public-key recovery over the curve y^2 = x^3 + 7 on a 67-element field  *)
(* (prime group order 79).                                                 *)
(***************************************************************************)
EXTENDS Integers, Sequences, FiniteSets, TLC

VARIABLES op, args, ret

vars == <<op, args, ret>>

----------------------------------------------------------------------------
(* Bounds of the model.                                                    *)

\* payload patterns 0..MaxSeed are drawn for every buffer length
MaxSeed == 3

\* raw buffers of every length 0..MaxShort are handed to the decoder
MaxShort == 5

\* recovery markers 0..MaxMarker are drawn
MaxMarker == 40

\* private keys are the scalars 1..MaxKey
MaxKey == 6

----------------------------------------------------------------------------
(* Buffers.                                                                *)

Byte == 0..255

Reverse(s) == [i \in 1..Len(s) |-> s[Len(s) + 1 - i]]

\* slice [from, to) with 0-based bounds, as Rust's buf[from..to]
Slice(s, from, to) == [i \in 1..(to - from) |-> s[from + i]]

Zeros(n) == [i \in 1..n |-> 0]

\* number of leading elements of s equal to z
CountLeading(s, z) ==
  IF \A i \in 1..Len(s) : s[i] = z THEN Len(s)
  ELSE (CHOOSE i \in 1..Len(s) :
          s[i] # z /\ \A j \in 1..(i - 1) : s[j] = z) - 1

----------------------------------------------------------------------------
(* Digests (sha2::Sha256, ripemd::Ripemd160).                              *)

\* bytes[lo..hi] absorbed one at a time, in order, into the state h
RECURSIVE Absorb(_, _, _, _)
Absorb(bytes, lo, hi, h) ==
  IF lo > hi THEN h
  ELSE IF lo = hi THEN (h * 33 + bytes[lo] + 1) % 65521
  ELSE LET mid  == (lo + hi) \div 2
           left == Absorb(bytes, lo, mid, h)
       IN  \* the test makes the left half be evaluated first
           IF left >= 0 THEN Absorb(bytes, mid + 1, hi, left) ELSE h

Squeeze(h, len) == [j \in 1..len |-> ((h \div j) + j * h + 7 * j) % 256]

Sha256Digest(bytes) == Squeeze(Absorb(bytes, 1, Len(bytes), 5381), 32)

Ripemd160Digest(bytes) == Squeeze(Absorb(bytes, 1, Len(bytes), 1013), 20)

sha256(bytes) == Sha256Digest(bytes)

hash_message(message) == sha256(message)

----------------------------------------------------------------------------
(* Base58 (crate bs58, Bitcoin alphabet).                                  *)

\* "123456789ABCDEFGHJKLMNPQRSTUVWXYZabcdefghijkmnopqrstuvwxyz"
Alphabet ==
  [i \in 1..58 |->
     IF i <= 9 THEN 48 + i
     ELSE IF i <= 17 THEN 55 + i
     ELSE IF i <= 22 THEN 56 + i
     ELSE IF i <= 33 THEN 57 + i
     ELSE IF i <= 44 THEN 63 + i
     ELSE 64 + i]

AlphabetChars == {Alphabet[i] : i \in 1..58}

AlphabetIndex(c) == (CHOOSE i \in 1..58 : Alphabet[i] = c) - 1

\* The inner loop of the conversion over digits[lo..hi] (little-endian,
\* radix `to`): each digit becomes (carry + digit * from) % to and hands
\* the quotient on as the next carry.
RECURSIVE PassRange(_, _, _, _, _, _)
PassRange(digits, lo, hi, carry, from, to) ==
  IF lo > hi THEN [out |-> <<>>, carry |-> carry]
  ELSE IF lo = hi
  THEN LET c == carry + digits[lo] * from
       IN  [out |-> <<c % to>>, carry |-> c \div to]
  ELSE LET mid == (lo + hi) \div 2
           l   == PassRange(digits, lo, mid, carry, from, to)
           r   == PassRange(digits, mid + 1, hi, l.carry, from, to)
       IN  [out |-> l.out \o r.out, carry |-> r.carry]

\* while carry > 0 { push carry % to; carry /= to }
RECURSIVE CarryDigits(_, _)
CarryDigits(carry, to) ==
  IF carry = 0 THEN <<>>
  ELSE <<carry % to>> \o CarryDigits(carry \div to, to)

\* digits * from + val
RadixPass(digits, val, from, to) ==
  LET p == PassRange(digits, 1, Len(digits), val, from, to)
  IN  p.out \o CarryDigits(p.carry, to)

\* the outer loop: input[lo..hi] pushed one at a time, in order
RECURSIVE RadixConvert(_, _, _, _, _, _)
RadixConvert(input, lo, hi, digits, from, to) ==
  IF lo > hi THEN digits
  ELSE IF lo = hi THEN RadixPass(digits, input[lo], from, to)
  ELSE LET mid  == (lo + hi) \div 2
           left == RadixConvert(input, lo, mid, digits, from, to)
       IN  \* the test makes the left half be evaluated first
           IF Len(left) >= 0
           THEN RadixConvert(input, mid + 1, hi, left, from, to)
           ELSE digits

\* bs58::encode(input).into_string()
bs58_encode(input) ==
  LET digits == RadixConvert(input, 1, Len(input), <<>>, 256, 58)
      padded == digits \o Zeros(CountLeading(input, 0))
  IN  Reverse([i \in 1..Len(padded) |-> Alphabet[padded[i] + 1]])

\* bs58::decode(input).into_vec(): Err on a character outside the alphabet
bs58_decode(input) ==
  IF \E i \in 1..Len(input) : input[i] \notin AlphabetChars
  THEN [kind |-> "Err"]
  ELSE LET vals   == [i \in 1..Len(input) |-> AlphabetIndex(input[i])]
           digits == RadixConvert(vals, 1, Len(vals), <<>>, 58, 256)
           padded == digits \o Zeros(CountLeading(input, Alphabet[1]))
       IN  [kind |-> "Ok", value |-> Reverse(padded)]

----------------------------------------------------------------------------
(* utils.rs: the checksummed codec.                                        *)

EncodeTypes == {"K1", "Sha256x2", "PubKey"}

\* Option<EncodeType>
EncodeOptions == EncodeTypes \cup {"None"}

\* encoding.unwrap_or(EncodeType::K1)
unwrap_or_K1(encoding) == IF encoding = "None" THEN "K1" ELSE encoding

Panic == [kind |-> "Panic"]

Ok(v) == [kind |-> "Ok", value |-> v]

\* encode_to_string without the network byte in front of a Sha256x2 key
encode_to_string_no_network_byte(buffer, encoding) ==
  LET encode_type == unwrap_or_K1(encoding) IN
  IF encode_type = "PubKey" THEN
    bs58_encode(buffer \o Slice(Ripemd160Digest(buffer), 0, 4))
  ELSE IF encode_type = "Sha256x2" THEN
    bs58_encode(buffer \o Slice(Sha256Digest(Sha256Digest(buffer)), 0, 4))
  ELSE
    bs58_encode(buffer \o Slice(Ripemd160Digest(buffer \o <<75, 49>>), 0, 4))

encode_to_string(buffer, encoding) ==
  LET encode_type == unwrap_or_K1(encoding) IN
  IF encode_type = "PubKey" THEN
    LET hash == Ripemd160Digest(buffer)
    IN  bs58_encode(buffer \o Slice(hash, 0, 4))
  ELSE IF encode_type = "Sha256x2" THEN
    LET key_vec  == <<128>> \o buffer
        checksum == Sha256Digest(Sha256Digest(key_vec))
    IN  bs58_encode(key_vec \o Slice(checksum, 0, 4))
  ELSE
    LET check    == buffer \o <<75, 49>>
        result   == Ripemd160Digest(check)
        checksum == Slice(result, 0, 4)
    IN  bs58_encode(buffer \o checksum)

decode_from_string(input, encoding) ==
  LET encode_type == unwrap_or_K1(encoding)
      decoded     == bs58_decode(input)
  IN
  IF decoded.kind # "Ok" THEN Panic
  ELSE
    LET decoded_buffer == decoded.value
        len            == Len(decoded_buffer)
    IN
    \* len - 4 underflows (debug build) or the slice is out of range
    IF len < 4 THEN Panic
    ELSE
      LET body     == Slice(decoded_buffer, 0, len - 4)
          checksum == Slice(decoded_buffer, len - 4, len)
      IN
      IF encode_type = "PubKey" THEN
        IF Len(body) # 32 THEN Panic
        ELSE IF Len(checksum) # 4 THEN Panic
        ELSE Ok(body)
      ELSE IF encode_type = "Sha256x2" THEN
        \* key_buffer_with_network[..1] on an empty slice
        IF Len(body) < 1 THEN Panic
        ELSE
          LET network_id == Slice(body, 0, 1)
              key_buffer == Slice(body, 1, Len(body))
          IN  IF Len(checksum) # 4 THEN Panic
              ELSE IF Len(key_buffer) # 32 THEN Panic
              ELSE IF network_id # <<128>> THEN Panic
              ELSE Ok(key_buffer)
      ELSE
        IF Len(body) # 65 THEN Panic
        ELSE IF Len(checksum) # 4 THEN Panic
        ELSE Ok(body)

----------------------------------------------------------------------------
(* keys/private.rs: key derivation.                                        *)

\* str::is_ascii
is_ascii(str) == \A i \in 1..Len(str) : str[i] < 128

\* UTF-8 encoding of one code point below U+0800
Utf8(c) == IF c < 128 THEN <<c>> ELSE <<192 + (c \div 64), 128 + (c % 64)>>

\* str::as_bytes
RECURSIVE as_bytes(_)
as_bytes(str) ==
  IF str = <<>> THEN <<>> ELSE Utf8(Head(str)) \o as_bytes(Tail(str))

\* PrivateKey::new
PrivateKey_new(key) == IF Len(key) # 32 THEN Panic ELSE Ok(key)

\* from_login with the seed in the order role, username, password
from_login_role_first(username, password, role) ==
  IF ~is_ascii(username) \/ ~is_ascii(password) \/ ~is_ascii(role)
  THEN Panic
  ELSE PrivateKey_new(Sha256Digest(as_bytes(role \o username \o password)))

\* from_login with the seed in the order username, password, role
from_login_password_first(username, password, role) ==
  IF ~is_ascii(username) \/ ~is_ascii(password) \/ ~is_ascii(role)
  THEN Panic
  ELSE PrivateKey_new(Sha256Digest(as_bytes(username \o password \o role)))

\* PrivateKey::from_login
from_login(username, password, role) ==
  IF ~is_ascii(username) THEN Panic
  ELSE IF ~is_ascii(password) THEN Panic
  ELSE IF ~is_ascii(role) THEN Panic
  ELSE LET seed == username \o role \o password
           hash == Sha256Digest(as_bytes(seed))
       IN  PrivateKey_new(hash)

\* test::prop_login_inputs: discards non-ASCII input, otherwise tells
\* whether the key of SHA256(user, pass, role) equals from_login's
prop_login_inputs(user, pass, role) ==
  IF ~is_ascii(user) \/ ~is_ascii(pass) \/ ~is_ascii(role)
  THEN [kind |-> "Discard"]
  ELSE LET hash  == Sha256Digest(as_bytes(user \o pass \o role))
           priv1 == PrivateKey_new(hash)
       IN  Ok(priv1 = from_login(user, pass, role))

----------------------------------------------------------------------------
(* secp256k1 (crate k256), scaled down: the curve y^2 = x^3 + 7 over the   *)
(* field of FieldP elements; its group has the prime order GroupN.         *)

FieldP == 67

GroupN == 79

Infinity == [inf |-> TRUE, x |-> 0, y |-> 0]

Point(x, y) == [inf |-> FALSE, x |-> x, y |-> y]

Generator == Point(2, 22)

InvMod(a, m) == CHOOSE b \in 1..(m - 1) : (a * b) % m = 1

PointAdd(P, Q) ==
  IF P.inf THEN Q
  ELSE IF Q.inf THEN P
  ELSE IF P.x = Q.x /\ (P.y + Q.y) % FieldP = 0 THEN Infinity
  ELSE LET lambda == IF P.x = Q.x
                     THEN (3 * P.x * P.x * InvMod((2 * P.y) % FieldP, FieldP))
                            % FieldP
                     ELSE ((Q.y - P.y) * InvMod((Q.x - P.x) % FieldP, FieldP))
                            % FieldP
           x3     == (lambda * lambda - P.x - Q.x) % FieldP
           y3     == (lambda * (P.x - x3) - P.y) % FieldP
       IN  Point(x3, y3)

RECURSIVE ScalarMul(_, _)
ScalarMul(k, P) ==
  IF k = 0 THEN Infinity
  ELSE LET half    == ScalarMul(k \div 2, P)
           doubled == PointAdd(half, half)
       IN  IF k % 2 = 1 THEN PointAdd(doubled, P) ELSE doubled

\* AffinePoint::decompress(x, y_is_odd)
Decompress(x, y_is_odd) ==
  LET ys == {y \in 0..(FieldP - 1) :
               /\ x < FieldP
               /\ (y * y) % FieldP = (x * x * x + 7) % FieldP
               /\ (y % 2 = 1) <=> y_is_odd}
  IN  IF ys = {} THEN [kind |-> "Err"]
      ELSE [kind |-> "Ok", value |-> Point(x, CHOOSE y \in ys : TRUE)]

\* a scalar as 32 big-endian bytes (FieldBytes)
FieldBytes(k) == Zeros(31) \o <<k>>

\* Scalar::from_be_bytes_reduced: the big-endian number modulo the order
RECURSIVE ReduceBytes(_, _)
ReduceBytes(bytes, len) ==
  IF len = 0 THEN 0
  ELSE (ReduceBytes(bytes, len - 1) * 256 + bytes[len]) % GroupN

\* a non-zero scalar below the group order from 32 big-endian bytes
\* (NonZeroScalar / SigningKey::from_bytes / Signature::from_scalars)
NonZeroScalar(bytes) ==
  IF /\ Len(bytes) = 32
     /\ \A i \in 1..31 : bytes[i] = 0
     /\ bytes[32] >= 1
     /\ bytes[32] < GroupN
  THEN [kind |-> "Ok", value |-> bytes[32]]
  ELSE [kind |-> "Err"]

\* VerifyingKey::to_bytes: the compressed point, 33 bytes
CompressedBytes(P) == <<2 + (P.y % 2)>> \o FieldBytes(P.x)

\* the deterministic nonce (RFC 6979) of a key and a digest
Nonce(d, z, attempt) == 1 + ((d * 31 + z * 17 + attempt * 7 + 5) % (GroupN - 1))

\* SigningKey::sign_digest: ECDSA over the finalized digest, low-S
\* normalized, with the recovery id of the nonce point
RECURSIVE SignPrehashed(_, _, _)
SignPrehashed(d, digest, attempt) ==
  LET z        == ReduceBytes(digest, Len(digest))
      k        == Nonce(d, z, attempt)
      R        == ScalarMul(k, Generator)
      r        == R.x % GroupN
      s        == (InvMod(k, GroupN) * (z + r * d)) % GroupN
      is_high  == 2 * s > GroupN
      is_y_odd == R.y % 2 = 1
  IN  IF r = 0 \/ s = 0 THEN SignPrehashed(d, digest, attempt + 1)
      ELSE [r  |-> r,
            s  |-> IF is_high THEN GroupN - s ELSE s,
            id |-> IF is_y_odd # is_high THEN 1 ELSE 0]

\* recoverable::Signature::recover_verify_key_from_digest_bytes
RecoverVerifyKey(r, s, id, digest) ==
  LET z == ReduceBytes(digest, Len(digest))
      R == Decompress(r, id = 1)
  IN  IF R.kind # "Ok" THEN [kind |-> "Err"]
      ELSE LET r_inv == InvMod(r, GroupN)
               u1    == (GroupN - ((r_inv * z) % GroupN)) % GroupN
               u2    == (r_inv * s) % GroupN
               pk    == PointAdd(ScalarMul(u1, Generator),
                                 ScalarMul(u2, R.value))
           IN  IF pk.inf THEN [kind |-> "Err"]
               ELSE [kind |-> "Ok", value |-> pk]

\* Sha256Proxy::from(hash) as a digest: finalizing it yields the hash it
\* was made from (crate::hash)
Sha256Proxy(hash) == hash

----------------------------------------------------------------------------
(* types/signature.rs: the canonical signature.                            *)

\* U256 is kept as its 32 bytes, least significant first
U256_from_big_endian(bytes) == Reverse(bytes)

U256_to_big_endian(u) == Reverse(u)

U256_from_scalar(k) == U256_from_big_endian(FieldBytes(k))

Err(e) == [kind |-> "Err", error |-> e]

normalize_recovery_id(v) ==
  IF v = 0 THEN 0
  ELSE IF v = 1 THEN 1
  ELSE IF v = 31 THEN 0
  ELSE IF v = 32 THEN 1
  ELSE IF v >= 35 THEN (v - 1) % 2
  ELSE 4

\* RecoveryId::new
RecoveryId_new(byte) == IF byte \in {0, 1} THEN Ok(byte) ELSE Err("K256Error")

\* Signature::recovery_id
recovery_id(sig) ==
  LET standard_v == normalize_recovery_id(sig.v)
  IN  RecoveryId_new(standard_v)

\* Signature::as_signature
as_signature(sig) ==
  LET id == recovery_id(sig) IN
  IF id.kind # "Ok" THEN id
  ELSE LET r_bytes == U256_to_big_endian(sig.r)
           s_bytes == U256_to_big_endian(sig.s)
           r       == NonZeroScalar(r_bytes)
           s       == NonZeroScalar(s_bytes)
       IN  IF r.kind # "Ok" \/ s.kind # "Ok" THEN Err("K256Error")
           ELSE Ok([r |-> r.value, s |-> s.value, id |-> id.value])

\* RecoveryMessage
Data(bytes) == [kind |-> "Data", value |-> bytes]

Hash(hash) == [kind |-> "Hash", value |-> hash]

\* Signature::recover
recover(sig, message) ==
  LET message_hash == IF message.kind = "Data"
                      THEN hash_message(message.value)
                      ELSE message.value
      recoverable  == as_signature(sig)
  IN  IF recoverable.kind # "Ok" THEN recoverable
      ELSE LET verify_key ==
                 RecoverVerifyKey(recoverable.value.r, recoverable.value.s,
                                  recoverable.value.id, message_hash)
           IN  IF verify_key.kind # "Ok" THEN Err("K256Error")
               ELSE Ok(CompressedBytes(verify_key.value))

\* verify that returns Ok without comparing the recovered key
verify_no_comparison(sig, message, public) ==
  LET recovered == recover(sig, message)
  IN  IF recovered.kind # "Ok" THEN recovered ELSE Ok(<<>>)

\* Signature::verify
verify(sig, message, public) ==
  LET recovered == recover(sig, message)
  IN  IF recovered.kind # "Ok" THEN recovered
      ELSE IF recovered.value # public
      THEN [kind |-> "Err", error |-> "VerificationError",
            expected |-> public, recovered |-> recovered.value]
      ELSE Ok(<<>>)

\* impl TryFrom<&[u8]> for Signature
try_from(bytes) ==
  IF Len(bytes) # 65 THEN Err("InvalidLength")
  ELSE LET v == bytes[65]
           r == U256_from_big_endian(Slice(bytes, 0, 32))
           s == U256_from_big_endian(Slice(bytes, 32, 64))
       IN  Ok([r |-> r, s |-> s, v |-> v])

\* impl From<&Signature> for [u8; 65], and Signature::to_vec
to_vec(sig) ==
  U256_to_big_endian(sig.r) \o U256_to_big_endian(sig.s) \o <<sig.v % 256>>

rotate_left(buf) == IF buf = <<>> THEN buf ELSE Tail(buf) \o <<Head(buf)>>

rotate_right(buf) ==
  IF buf = <<>> THEN buf
  ELSE <<buf[Len(buf)]>> \o Slice(buf, 0, Len(buf) - 1)

\* Option<&str>
None == [some |-> FALSE, value |-> <<>>]

Some(str) == [some |-> TRUE, value |-> str]

\* "SIG_K1_"
SIG_K1 == <<83, 73, 71, 95, 75, 49, 95>>

\* str::strip_prefix(prefix).unwrap_or(str)
strip_prefix_or_self(str, prefix) ==
  IF Len(prefix) <= Len(str) /\ Slice(str, 0, Len(prefix)) = prefix
  THEN Slice(str, Len(prefix), Len(str))
  ELSE str

\* Signature::from_legacy
from_legacy(sig, prefix) ==
  LET sig_string  == strip_prefix_or_self(
                       sig, IF prefix.some THEN prefix.value ELSE SIG_K1)
      decoded_sig == decode_from_string(sig_string, "None")
  IN  IF decoded_sig.kind # "Ok" THEN decoded_sig
      ELSE try_from(rotate_left(decoded_sig.value))

\* to_legacy with the buffer rotated the wrong way
to_legacy_rotate_left(sig, prefix) ==
  (IF prefix.some THEN prefix.value ELSE <<>>)
    \o encode_to_string(rotate_left(to_vec(sig)), "None")

\* Signature::to_legacy
to_legacy(sig, prefix) ==
  LET pre          == IF prefix.some THEN prefix.value ELSE <<>>
      current_buff == rotate_right(to_vec(sig))
      sig_string   == encode_to_string(current_buff, "None")
  IN  pre \o sig_string

----------------------------------------------------------------------------
(* keys/private.rs: public key and signing.                                *)

\* PrivateKey::to_public
to_public(key) ==
  LET private_key == NonZeroScalar(key) IN
  IF private_key.kind # "Ok" THEN Panic
  ELSE Ok(CompressedBytes(ScalarMul(private_key.value, Generator)))

\* sign_message_canonical with the Electrum offset 27 in the marker
sign_message_canonical_offset_27(key, message) ==
  LET private_key == NonZeroScalar(key) IN
  IF private_key.kind # "Ok" THEN Panic
  ELSE LET sig == SignPrehashed(private_key.value,
                                Sha256Proxy(hash_message(as_bytes(message))),
                                0)
       IN  Ok([r |-> U256_from_scalar(sig.r), s |-> U256_from_scalar(sig.s),
               v |-> sig.id + 27])

\* sign_message_canonical with the bare recovery id as the marker
sign_message_canonical_raw_id(key, message) ==
  LET private_key == NonZeroScalar(key) IN
  IF private_key.kind # "Ok" THEN Panic
  ELSE LET sig == SignPrehashed(private_key.value,
                                Sha256Proxy(hash_message(as_bytes(message))),
                                0)
       IN  Ok([r |-> U256_from_scalar(sig.r), s |-> U256_from_scalar(sig.s),
               v |-> sig.id])

\* PrivateKey::sign_message_canonical
sign_message_canonical(key, message) ==
  LET private_key == NonZeroScalar(key) IN
  IF private_key.kind # "Ok" THEN Panic
  ELSE LET hashed_message == hash_message(as_bytes(message))
           sig == SignPrehashed(private_key.value,
                                Sha256Proxy(hashed_message), 0)
           v   == sig.id + 31
           r   == U256_from_big_endian(FieldBytes(sig.r))
           s   == U256_from_big_endian(FieldBytes(sig.s))
       IN  Ok([r |-> r, s |-> s, v |-> v])

\* PrivateKey::sign_message: the wire signature r || s || recovery id of
\* the SHA256 of the message
sign_message(key, message) ==
  LET private_key == NonZeroScalar(key) IN
  IF private_key.kind # "Ok" THEN Panic
  ELSE LET signature == SignPrehashed(private_key.value,
                                      Sha256Digest(as_bytes(message)), 0)
       IN  Ok(FieldBytes(signature.r) \o FieldBytes(signature.s)
                \o <<signature.id>>)

----------------------------------------------------------------------------
(* signatures.rs: the wire signature.                                      *)

\* RecoverableSignature::from_bytes: 65 bytes, r and s non-zero scalars,
\* recovery id 0 or 1
RecoverableSignature_from_bytes(bytes) ==
  IF /\ Len(bytes) = 65
     /\ NonZeroScalar(Slice(bytes, 0, 32)).kind = "Ok"
     /\ NonZeroScalar(Slice(bytes, 32, 64)).kind = "Ok"
     /\ bytes[65] \in {0, 1}
  THEN Ok(bytes)
  ELSE Err("K256Error")

\* Signature::to_string of the wire type
Signature_to_string(sig) ==
  LET signature == RecoverableSignature_from_bytes(sig) IN
  IF signature.kind # "Ok" THEN Panic
  ELSE Ok(encode_to_string(signature.value, "None"))

----------------------------------------------------------------------------
(* keys/public.rs: the address string.                                     *)

\* Option<Chain>
ChainOptions == {"None", "Hive", "Steem", "Eos"}

\* "STM" and "EOS"
STM == <<83, 84, 77>>

EOS == <<69, 79, 83>>

\* PublicKey::to_string with "STM" for every chain
PublicKey_to_string_always_STM(key, chain) ==
  IF ~(Len(key) > 0) THEN Panic
  ELSE Ok(STM \o encode_to_string(key, "PubKey"))

\* PublicKey::to_string
PublicKey_to_string(key, chain) ==
  LET unwrapped == IF chain = "None" THEN "Hive" ELSE chain
      prefix    == IF unwrapped = "Hive" THEN STM
                   ELSE IF unwrapped = "Steem" THEN STM
                   ELSE EOS
  IN  IF ~(Len(key) > 0) THEN Panic
      ELSE Ok(prefix \o encode_to_string(key, "PubKey"))

----------------------------------------------------------------------------
(* Inputs.                                                                 *)

\* a buffer of the given length; pattern 0 is all zero bytes
Pattern(len, seed) == [i \in 1..len |-> (seed * (i + 40 * seed) * 29) % 256]

Seeds == 0..MaxSeed

\* the payload length each variant is documented to carry
ValidLen(encode_type) == IF encode_type = "K1" THEN 65 ELSE 32

\* the payload with the framing encode_to_string gives it, before the
\* checksum is appended
Framed(payload, encode_type) ==
  IF encode_type = "Sha256x2" THEN <<128>> \o payload ELSE payload

\* the checksum encode_to_string appends to a framed payload
VariantChecksum(framed, encode_type) ==
  IF encode_type = "PubKey" THEN Slice(Ripemd160Digest(framed), 0, 4)
  ELSE IF encode_type = "Sha256x2"
  THEN Slice(Sha256Digest(Sha256Digest(framed)), 0, 4)
  ELSE Slice(Ripemd160Digest(framed \o <<75, 49>>), 0, 4)

\* decoded buffers handed to the decoder: short ones, and framed payloads
\* of the valid length, one byte less and one byte more, each with its
\* right checksum and with one checksum byte changed
ShortBuffers == {Pattern(len, 1) : len \in 0..MaxShort}

FramedBuffers(encode_type) ==
  UNION {
    LET framed == Framed(Pattern(ValidLen(encode_type) + d, seed), encode_type)
        sum    == VariantChecksum(framed, encode_type)
    IN  { framed \o sum }
        \cup { framed \o [sum EXCEPT ![k] = (sum[k] + 1) % 256] : k \in 1..4 }
    : d \in {-1, 0, 1}, seed \in 1..MaxSeed }

\* Sha256x2 buffers of the right length whose first byte is not 0x80
WrongNetworkBuffers ==
  { LET framed == <<b>> \o Pattern(32, 1)
    IN  framed \o VariantChecksum(framed, "Sha256x2") : b \in {0, 127, 129} }

DecoderBuffers(encode_type) ==
  ShortBuffers \cup FramedBuffers(encode_type)
    \cup (IF encode_type = "Sha256x2" THEN WrongNetworkBuffers ELSE {})

\* the texts handed to the decoder: the base58 text of each buffer, and
\* one text with a character outside the alphabet ("0")
DecoderTexts(encode_type) ==
  {bs58_encode(buffer) : buffer \in DecoderBuffers(encode_type)}
    \cup {<<50, 48, 50>>}

\* login strings: "", "a", "b", "ab", "ba", and strings with U+00E9
LoginChars == {97, 98, 233}

LoginStrings ==
  {<<>>} \cup {<<c>> : c \in LoginChars}
         \cup {<<c, d>> : c \in {97, 98}, d \in LoginChars}

\* recovery markers: 0..MaxMarker and a few beyond one byte
Markers == 0..MaxMarker \cup {255, 256, 283, 287, 288}

\* private keys: valid scalars, and two buffers SigningKey rejects
Keys == {FieldBytes(d) : d \in 1..MaxKey}

InvalidKeys == {FieldBytes(0), Pattern(32, 1)}

\* messages: "", "a", "b", "ab"
Messages == {<<>>, <<97>>, <<98>>, <<97, 98>>}

\* r and s of signatures made by hand: in range, zero, the group order
\* and a value with all 32 bytes in use
SampleScalars ==
  {U256_from_scalar(k) : k \in {0, 3, 5, GroupN}}
    \cup {U256_from_big_endian(Pattern(32, 2))}

SampleMarkers == {0, 1, 4, 27, 28, 31, 32, 35, 36, 256}

Signatures ==
  {[r |-> r, s |-> s, v |-> v] :
     r \in SampleScalars, s \in SampleScalars, v \in SampleMarkers}

RecoveryMessages == {Data(<<97>>), Hash(Pattern(32, 1))}

\* the public keys verify is asked to expect
PublicKeys == {to_public(FieldBytes(d)).value : d \in {1, 2}}

\* key buffers given to PublicKey::new: 32 and 33 bytes, and none
PublicKeyBuffers ==
  {Pattern(len, seed) : len \in {32, 33}, seed \in Seeds} \cup {<<>>}

\* wire signatures made by hand: r || s || id in range, and buffers
\* RecoverableSignature::from_bytes rejects
WireSignatures ==
  {FieldBytes(r) \o FieldBytes(s) \o <<id>> :
     r \in {1, 5}, s \in {3, GroupN - 1}, id \in {0, 1}}
    \cup {Zeros(65), Pattern(65, 1), Pattern(64, 1)}

\* signatures sent through the legacy string form
LegacySignatures ==
  {[r |-> r, s |-> s, v |-> v] :
     r \in {U256_from_scalar(5), U256_from_big_endian(Pattern(32, 2))},
     s \in {U256_from_scalar(3), U256_from_big_endian(Pattern(32, 3))},
     v \in {0, 27, 31, 32, 36, 255, 256, 283}}

\* None, "SIG_K1_", "" and "1"
Prefixes == {None, Some(SIG_K1), Some(<<>>), Some(<<49>>)}

----------------------------------------------------------------------------
(* Calls.  The library keeps no state between calls, so a call made from   *)
(* the start state stands for that call made at any time; the calls that   *)
(* consume a value take it from the call that produced it.                 *)

Init ==
  /\ op = "start"
  /\ args = [none |-> TRUE]
  /\ ret = [kind |-> "None"]

\* encode_to_string(buffer, encoding)
CallEncode ==
  /\ op = "start"
  /\ \E encoding \in EncodeOptions, seed \in Seeds :
       LET buffer == Pattern(ValidLen(unwrap_or_K1(encoding)), seed) IN
       /\ op' = "encode_to_string"
       /\ args' = [buffer |-> buffer, encoding |-> encoding]
       /\ ret' = Ok(encode_to_string(buffer, encoding))

\* decode_from_string(s, encoding) on the string the last encode returned
CallDecodeEncoded ==
  /\ op = "encode_to_string"
  /\ op' = "decode_from_string"
  /\ args' = [input |-> ret.value, encoding |-> args.encoding,
              source |-> "encoded", payload |-> args.buffer]
  /\ ret' = decode_from_string(ret.value, args.encoding)

\* decode_from_string(s, encoding) on the base58 text of any buffer
CallDecodeText ==
  /\ op = "start"
  /\ \E encoding \in EncodeOptions :
     \E input \in DecoderTexts(unwrap_or_K1(encoding)) :
       /\ op' = "decode_from_string"
       /\ args' = [input |-> input, encoding |-> encoding,
                   source |-> "text", payload |-> <<>>]
       /\ ret' = decode_from_string(input, encoding)

\* PrivateKey::from_login(username, password, role)
CallFromLogin ==
  /\ op = "start"
  /\ \E username \in LoginStrings, password \in LoginStrings,
        role \in LoginStrings :
       /\ op' = "from_login"
       /\ args' = [username |-> username, password |-> password,
                   role |-> role]
       /\ ret' = from_login(username, password, role)

\* normalize_recovery_id(v)
CallNormalize ==
  /\ op = "start"
  /\ \E v \in Markers :
       /\ op' = "normalize_recovery_id"
       /\ args' = [v |-> v]
       /\ ret' = Ok(normalize_recovery_id(v))

\* PrivateKey::to_public
CallToPublic ==
  /\ op = "start"
  /\ \E key \in Keys \cup InvalidKeys :
       /\ op' = "to_public"
       /\ args' = [key |-> key]
       /\ ret' = to_public(key)

\* PrivateKey::sign_message_canonical(message)
CallSign ==
  /\ op = "start"
  /\ \E key \in Keys, message \in Messages :
       /\ op' = "sign_message_canonical"
       /\ args' = [key |-> key, message |-> message]
       /\ ret' = sign_message_canonical(key, message)

\* Signature::recover(message) on the signature just made, same message
CallRecoverSigned ==
  /\ op = "sign_message_canonical"
  /\ ret.kind = "Ok"
  /\ op' = "recover"
  /\ args' = [sig |-> ret.value, message |-> Data(as_bytes(args.message)),
              source |-> "signed", key |-> args.key]
  /\ ret' = recover(ret.value, Data(as_bytes(args.message)))

\* Signature::verify(message, public) on the signature just made
CallVerifySigned ==
  /\ op = "sign_message_canonical"
  /\ ret.kind = "Ok"
  /\ \E public \in PublicKeys \cup {to_public(args.key).value} :
       /\ op' = "verify"
       /\ args' = [sig |-> ret.value,
                   message |-> Data(as_bytes(args.message)),
                   public |-> public]
       /\ ret' = verify(ret.value, Data(as_bytes(args.message)), public)

\* Signature::recovery_id on any signature
CallRecoveryId ==
  /\ op = "start"
  /\ \E sig \in Signatures :
       /\ op' = "recovery_id"
       /\ args' = [sig |-> sig]
       /\ ret' = recovery_id(sig)

\* Signature::recover(message) on any signature
CallRecover ==
  /\ op = "start"
  /\ \E sig \in Signatures, message \in RecoveryMessages :
       /\ op' = "recover"
       /\ args' = [sig |-> sig, message |-> message,
                   source |-> "any", key |-> <<>>]
       /\ ret' = recover(sig, message)

\* Signature::verify(message, public) on any signature
CallVerify ==
  /\ op = "start"
  /\ \E sig \in Signatures, message \in RecoveryMessages,
        public \in PublicKeys :
       /\ op' = "verify"
       /\ args' = [sig |-> sig, message |-> message, public |-> public]
       /\ ret' = verify(sig, message, public)

\* Signature::to_legacy(prefix)
CallToLegacy ==
  /\ op = "start"
  /\ \E sig \in LegacySignatures, prefix \in Prefixes :
       /\ op' = "to_legacy"
       /\ args' = [sig |-> sig, prefix |-> prefix]
       /\ ret' = Ok(to_legacy(sig, prefix))

\* Signature::from_legacy(s, prefix) on the string to_legacy returned
CallFromLegacy ==
  /\ op = "to_legacy"
  /\ op' = "from_legacy"
  /\ args' = [input |-> ret.value, prefix |-> args.prefix,
              source |-> "to_legacy", sig |-> args.sig]
  /\ ret' = from_legacy(ret.value, args.prefix)

\* PublicKey::new(key).to_string(chain)
CallPublicToString ==
  /\ op = "start"
  /\ \E key \in PublicKeyBuffers, chain \in ChainOptions :
       /\ op' = "PublicKey_to_string"
       /\ args' = [key |-> key, chain |-> chain, source |-> "new"]
       /\ ret' = PublicKey_to_string(key, chain)

\* to_string(chain) on the public key to_public just returned
CallPublicToStringOf ==
  /\ op = "to_public"
  /\ ret.kind = "Ok"
  /\ \E chain \in ChainOptions :
       /\ op' = "PublicKey_to_string"
       /\ args' = [key |-> ret.value, chain |-> chain,
                   source |-> "to_public"]
       /\ ret' = PublicKey_to_string(ret.value, chain)

\* decode_from_string(s, PubKey) on the address to_string just returned
\* for a key made by to_public, with the chain prefix taken off
CallDecodeAddress ==
  /\ op = "PublicKey_to_string"
  /\ args.source = "to_public"
  /\ ret.kind = "Ok"
  /\ LET input == Slice(ret.value, 3, Len(ret.value)) IN
     /\ op' = "decode_from_string"
     /\ args' = [input |-> input, encoding |-> "PubKey",
                 source |-> "address", payload |-> args.key]
     /\ ret' = decode_from_string(input, "PubKey")

\* PrivateKey::sign_message(message)
CallSignMessage ==
  /\ op = "start"
  /\ \E key \in Keys, message \in Messages :
       /\ op' = "sign_message"
       /\ args' = [key |-> key, message |-> message]
       /\ ret' = sign_message(key, message)

\* Signature::new(sig).to_string() of the wire type
CallWireToString ==
  /\ op = "start"
  /\ \E sig \in WireSignatures :
       /\ op' = "Signature_to_string"
       /\ args' = [sig |-> sig]
       /\ ret' = Signature_to_string(sig)

\* to_string() of the wire signature sign_message just returned
CallWireToStringOf ==
  /\ op = "sign_message"
  /\ ret.kind = "Ok"
  /\ op' = "Signature_to_string"
  /\ args' = [sig |-> ret.value]
  /\ ret' = Signature_to_string(ret.value)

\* Signature::from_legacy(s, None) on the string the wire type returned
CallFromLegacyWire ==
  /\ op = "Signature_to_string"
  /\ ret.kind = "Ok"
  /\ op' = "from_legacy"
  /\ args' = [input |-> ret.value, prefix |-> None,
              source |-> "wire", sig |-> args.sig]
  /\ ret' = from_legacy(ret.value, None)

\* test::prop_login_inputs(user, pass, role)
CallPropLoginInputs ==
  /\ op = "start"
  /\ \E user \in LoginStrings, pass \in LoginStrings, role \in LoginStrings :
       /\ op' = "prop_login_inputs"
       /\ args' = [user |-> user, pass |-> pass, role |-> role]
       /\ ret' = prop_login_inputs(user, pass, role)

Next ==
  \/ CallEncode
  \/ CallDecodeEncoded
  \/ CallDecodeText
  \/ CallFromLogin
  \/ CallNormalize
  \/ CallToPublic
  \/ CallSign
  \/ CallRecoverSigned
  \/ CallVerifySigned
  \/ CallRecoveryId
  \/ CallRecover
  \/ CallVerify
  \/ CallToLegacy
  \/ CallFromLegacy
  \/ CallPublicToString
  \/ CallPublicToStringOf
  \/ CallDecodeAddress
  \/ CallSignMessage
  \/ CallWireToString
  \/ CallWireToStringOf
  \/ CallFromLegacyWire
  \/ CallPropLoginInputs

Spec == Init /\ [][Next]_vars

----------------------------------------------------------------------------
(* Properties of the codec.                                                *)

\* the buffer a decode call's text stands for, or <<>> if it is not base58
DecodedArg == 
  LET d == bs58_decode(args.input)
  IN  IF d.kind = "Ok" THEN d.value ELSE <<>>

ArgIsBase58 == bs58_decode(args.input).kind = "Ok"

ArgType == unwrap_or_K1(args.encoding)

\* the decoded buffer without its trailing four bytes
ArgBody == Slice(DecodedArg, 0, Len(DecodedArg) - 4)

ArgChecksum == Slice(DecodedArg, Len(DecodedArg) - 4, Len(DecodedArg))

\* the decoded buffer has the length the variant's framing asks for
ArgLengthValid ==
  /\ Len(DecodedArg) >= 4
  /\ Len(ArgBody) = ValidLen(ArgType) + (IF ArgType = "Sha256x2" THEN 1 ELSE 0)

ArgNetworkValid == ArgType = "Sha256x2" => ArgBody[1] = 128

\* the payload inside a well-framed body
ArgPayload ==
  IF ArgType = "Sha256x2" THEN Slice(ArgBody, 1, Len(ArgBody)) ELSE ArgBody

\* C1: decoding the string encode_to_string made of a payload of the
\* variant's valid length, under the same variant, returns that payload.
C1_RoundTrip ==
  (op = "decode_from_string" /\ args.source = "encoded")
    => ret = Ok(args.payload)

\* a key of 32 zero bytes has gone through PubKey encode and decode
C1_Witness ==
  /\ op = "decode_from_string"
  /\ args.source = "encoded"
  /\ args.encoding = "PubKey"
  /\ args.payload = Zeros(32)
  /\ ret.kind = "Ok"

\* C2: on a base58 input of correct length decode_from_string returns the
\* payload only when the trailing four bytes equal the variant's checksum
\* of the rest, and fails with ChecksumMismatch when they differ.
C2_ChecksumEnforced ==
  (op = "decode_from_string" /\ ArgIsBase58 /\ ArgLengthValid
     /\ ArgNetworkValid)
    => IF ArgChecksum = VariantChecksum(ArgBody, ArgType)
       THEN ret = Ok(ArgPayload)
       ELSE ret = Err("ChecksumMismatch")

\* C3: on a decoded buffer of the wrong length decode_from_string returns
\* an InvalidLength error, and under Sha256x2 it returns an error for a
\* first byte other than 0x80; it does not abort.
C3_LengthErrorReturned ==
  (op = "decode_from_string" /\ ArgIsBase58)
    => /\ ~ArgLengthValid => ret = Err("InvalidLength")
       /\ (ArgLengthValid /\ ~ArgNetworkValid) => ret.kind = "Err"

----------------------------------------------------------------------------
(* Properties of key derivation.                                           *)

ArgsAscii ==
  is_ascii(args.username) /\ is_ascii(args.password) /\ is_ascii(args.role)

C10_NonAsciiReturnsError ==
  (op = "from_login" /\ ~ArgsAscii) => ret = Err("InvalidInput")

----------------------------------------------------------------------------
(* Properties of the recovery marker.                                      *)

DocumentedMarkers == {0, 1, 27, 28, 31, 32, 35, 36}

\* the parity section 4.3 of the specification documents for a marker
DocumentedParity(v) ==
  IF v \in {0, 1} THEN v
  ELSE IF v \in {27, 28} THEN v - 27
  ELSE IF v \in {31, 32} THEN v - 31
  ELSE (v - 1) % 2

\* C5: normalize_recovery_id maps each of 0, 1, 27, 28, 31, 32, 35, 36 to
\* its documented parity.
C5_DocumentedParity ==
  (op = "normalize_recovery_id" /\ args.v \in DocumentedMarkers)
    => ret = Ok(DocumentedParity(args.v))

Undocumented(v) == v < 35 /\ v \notin {0, 1, 27, 28, 31, 32}

\* C6: normalization of a marker that is none of 0, 1, 27, 28, 31, 32 and
\* is below 35 fails with an error and yields no value, 4 included;
\* recovery_id and recover return Err for a signature with such a marker.
C6_UndocumentedFails ==
  /\ (op = "normalize_recovery_id" /\ Undocumented(args.v))
       => ret.kind = "Err"
  /\ (op \in {"recovery_id", "recover"} /\ Undocumented(args.sig.v))
       => ret.kind = "Err"

----------------------------------------------------------------------------
(* Properties of the canonical signature.                                  *)

\* C7: recovering from the signature sign_message_canonical made with a
\* valid key, over the same message, succeeds with the key's public key.
C7_SignRecover ==
  (op = "recover" /\ args.source = "signed") => ret = to_public(args.key)

\* a signature with the odd-parity marker has been recovered
C7_Witness ==
  /\ op = "recover"
  /\ args.source = "signed"
  /\ args.sig.v = 32
  /\ ret.kind = "Ok"

\* the 65 bytes of the legacy form: recovery byte, r, s
LegacyBytes(sig) ==
  <<sig.v % 256>> \o U256_to_big_endian(sig.r) \o U256_to_big_endian(sig.s)

PrefixText(prefix) == IF prefix.some THEN prefix.value ELSE <<>>

\* C8 as claimed: from_legacy of to_legacy, under the same prefix, returns
\* the signature with r, s and v all unchanged, for every 64-bit v.
C8_LegacyLossless ==
  (op = "from_legacy" /\ args.source = "to_legacy") => ret = Ok(args.sig)

\* C8 as amended: to_legacy is the prefix followed by the K1 encoding of
\* [v mod 256] || r || s, and from_legacy of it returns r and s unchanged
\* and v mod 256, which is the signature itself when v < 256.
C8_LegacyRoundTrip ==
  /\ op = "to_legacy"
       => ret = Ok(PrefixText(args.prefix)
                     \o encode_to_string(LegacyBytes(args.sig), "K1"))
  /\ (op = "from_legacy" /\ args.source = "to_legacy")
       => /\ ret = Ok([args.sig EXCEPT !.v = @ % 256])
          /\ args.sig.v < 256 => ret = Ok(args.sig)

\* a signature with all bytes of r in use and the marker 32 has come back
\* from its "SIG_K1_" string
C8_Witness ==
  /\ op = "from_legacy"
  /\ args.source = "to_legacy"
  /\ args.prefix = Some(SIG_K1)
  /\ args.sig.v = 32
  /\ args.sig.r = U256_from_big_endian(Pattern(32, 2))
  /\ ret.kind = "Ok"

VerificationError(expected, recovered) ==
  [kind |-> "Err", error |-> "VerificationError",
   expected |-> expected, recovered |-> recovered]

\* what recovery gives for the arguments of a verify call
ArgRecovered == recover(args.sig, args.message)

----------------------------------------------------------------------------
(* Properties of the stored recovery marker.                               *)

\* the recovery id the signer produced for the arguments of a sign call
ArgSignerId ==
  SignPrehashed(NonZeroScalar(args.key).value,
                Sha256Proxy(hash_message(as_bytes(args.message))), 0).id

----------------------------------------------------------------------------
(* Properties of the address string.                                       *)

\* the documented prefix table: Hive and Steem share "STM", Eos has
\* "EOS", and no chain means Hive
DocumentedPrefix(chain) ==
  IF chain \in {"None", "Hive", "Steem"} THEN <<83, 84, 77>>
  ELSE <<69, 79, 83>>

\* C12: PublicKey::to_string is the chain's prefix followed by the PubKey
\* encoding of the key bytes; the checksum inside covers the key bytes
\* alone, not the prefix.
C12_AddressFormat ==
  (op = "PublicKey_to_string" /\ args.key # <<>>)
    => /\ ret = Ok(DocumentedPrefix(args.chain)
                     \o encode_to_string(args.key, "PubKey"))
       /\ bs58_decode(Slice(ret.value, 3, Len(ret.value)))
            = Ok(args.key \o Slice(Ripemd160Digest(args.key), 0, 4))

\* the public key of a private key has been formatted for Eos
C12_Witness ==
  /\ op = "PublicKey_to_string"
  /\ args.source = "to_public"
  /\ args.chain = "Eos"
  /\ Len(args.key) = 33
  /\ ret.kind = "Ok"

----------------------------------------------------------------------------
(* Properties of the login test.                                           *)

\* the key made of the digest of three strings in the given order
KeyOfSeed(a, b, c) == Ok(Sha256Digest(as_bytes(a \o b \o c)))

----------------------------------------------------------------------------
(* Properties of the address read back.                                    *)

\* C14: the address of a key made by to_public, without its chain prefix,
\* is accepted by decode_from_string under PubKey and decodes to the
\* public-key bytes that were encoded.
C14_AddressDecodes ==
  (op = "decode_from_string" /\ args.source = "address")
    => ret = Ok(args.payload)

----------------------------------------------------------------------------
(* Properties of the two signature string forms.                           *)

\* C15: parsing the string of a wire signature w with from_legacy(_, None)
\* yields the same r, s and v as converting the bytes of w with try_from.
C15_WireStringAgrees ==
  (op = "from_legacy" /\ args.source = "wire") => ret = try_from(args.sig)

====
